---- MODULE Spec2Model ----
(***************************************************************************)
(* Deterministic routing of the Interceptor backend                        *)
(* (backend/app_deterministic.py): signal extraction from an uploaded      *)
(* file, the five-rule routing policy, and the /predict handler that runs  *)
(* them on a temporary copy of the upload.                                 *)
(*                                                                         *)
(* Text is modelled as a sequence of one-character strings, so that        *)
(* substring search, splitting and case folding are computed.  The value   *)
(* file_size_mb (a float rounded to 2 decimals) is kept as an integer      *)
(* number of hundredths of a MiB: 2.01 is 201.                             *)
(***************************************************************************)
EXTENDS Integers, Sequences, FiniteSets, TLC

\* ------------------------------------------------------------------ bounds

\* Hash salts a server process may start with: 0..MaxSeed.
MaxSeed == 1
MaxNameLen == 3

\* ------------------------------------------------------- program constants

MiB == 1048576
READ_LIMIT == 1024
BITRATE_LOW_BELOW == 5000000
BITRATE_MEDIUM_BELOW == 20000000
SIZE_SMALL_BELOW == 500
SIZE_MEDIUM_BELOW == 2000
AV_SIZE_ABOVE == 200
TM_SIZE_ABOVE == 1000
QUALITY_BANDS == <<"LOW", "MEDIUM", "HIGH">>

\* MODELS: the specialist names, in the order of the dictionary.
MODELS == <<"BG-Model N", "AV-Model N", "CM-Model N", "RR-Model N", "LL-Model N", "TM-Model">>

Range(s) == {s[i] : i \in 1..Len(s)}

\* ------------------------------------------------------------------- text

UpperCase == <<"A","B","C","D","E","F","G","H","I","J","K","L","M",
               "N","O","P","Q","R","S","T","U","V","W","X","Y","Z">>
LowerCase == <<"a","b","c","d","e","f","g","h","i","j","k","l","m",
               "n","o","p","q","r","s","t","u","v","w","x","y","z">>

\* str.lower() on one character.
CaseFold ==
  [c \in Range(UpperCase) |-> LowerCase[CHOOSE i \in 1..Len(UpperCase) : UpperCase[i] = c]]
LowerChar(c) == IF c \in DOMAIN CaseFold THEN CaseFold[c] ELSE c

\* str.lower()
Lower(s) == [i \in 1..Len(s) |-> LowerChar(s[i])]

\* kw occurs in s as a contiguous substring.
Contains(s, kw) ==
  \E i \in 1..(Len(s) - Len(kw) + 1) : SubSeq(s, i, i + Len(kw) - 1) = kw

\* Mutant: re.match, which looks for the keyword at the start only.
re_search_Match(keywords, filename) ==
  LET folded == Lower(filename)
  IN \E kw \in keywords :
       Len(kw) <= Len(folded) /\ SubSeq(folded, 1, Len(kw)) = kw

\* re.search(r'k1|k2|...', filename, re.IGNORECASE) for literal alternatives.
re_search(keywords, filename) ==
  LET folded == Lower(filename)
  IN \E kw \in keywords : Contains(folded, kw)

COMPRESSED_KEYWORDS ==
  { <<"c","o","m","p","r","e","s","s">>, <<"l","o","w">>,
    <<"s","m","a","l","l">>, <<"l","i","t","e">> }
HD_KEYWORDS ==
  { <<"h","d">>, <<"1","0","8","0">>, <<"7","2","0">>, <<"4","k">>, <<"u","h","d">> }
MOBILE_KEYWORDS ==
  { <<"m","o","b","i","l","e">>, <<"p","h","o","n","e">>,
    <<"w","h","a","t","s","a","p","p">>, <<"t","e","l","e","g","r","a","m">> }
SOCIAL_KEYWORDS ==
  { <<"i","n","s","t","a","g","r","a","m">>, <<"t","i","k","t","o","k">>,
    <<"s","n","a","p","c","h","a","t">>, <<"f","a","c","e","b","o","o","k">> }

EXT_UNKNOWN == <<"u","n","k","n","o","w","n">>
EXT_WEBM == <<"w","e","b","m">>
EXT_MKV == <<"m","k","v">>
EXT_MP4 == <<"m","p","4">>

\* Mutant: the extension keeps the letter case of the filename.
FileExtension_NoLower(filename) ==
  IF "." \in Range(filename)
    THEN LET last == CHOOSE i \in 1..Len(filename) :
                       /\ filename[i] = "."
                       /\ \A j \in (i + 1)..Len(filename) : filename[j] # "."
         IN SubSeq(filename, last + 1, Len(filename))
    ELSE EXT_UNKNOWN

\* filename.split('.')[-1].lower() if '.' in filename else 'unknown'
FileExtension(filename) ==
  IF "." \in Range(filename)
    THEN LET last == CHOOSE i \in 1..Len(filename) :
                       /\ filename[i] = "."
                       /\ \A j \in (i + 1)..Len(filename) : filename[j] # "."
         IN Lower(SubSeq(filename, last + 1, Len(filename)))
    ELSE EXT_UNKNOWN

\* ----------------------------------------------------------------- digest

HexDigits == <<"0","1","2","3","4","5","6","7","8","9","a","b","c","d","e","f">>

\* ord(c) for the characters of a hex digest.
HexIndex == [c \in Range(HexDigits) |-> CHOOSE k \in 1..16 : HexDigits[k] = c]
Ord_LettersFirst(c) == IF HexIndex[c] <= 10 THEN 47 + HexIndex[c] ELSE HexIndex[c]
Ord(c) == IF HexIndex[c] <= 10 THEN 47 + HexIndex[c] ELSE 86 + HexIndex[c]

\* The value of one hex digit, and int(two hex digits, 16).
HexVal(c) == HexIndex[c] - 1
HexByte(hi, lo) == 16 * HexVal(hi) + HexVal(lo)

\* hashlib.md5(bytes).hexdigest(): the digests of the byte strings that occur
\* in the model, as computed by MD5.  A content prefix is named by sample
\* bytes; the decimal strings are str(file_size) of the fallback.
MD5(bytes) ==
  CASE bytes = "RIFF" ->
       <<"2","0","2","1","2","5","f","f","e","c","2","3","4","c","9","4","1","c","5","e","1","3","6","c","7","6","3","6","7","b","9","5">>
    [] bytes = "ftyp" ->
       <<"0","2","8","a","5","4","1","3","e","d","1","2","d","2","5","a","9","1","1","6","0","c","3","d","b","a","a","1","7","d","c","8">>
    [] bytes = "EBML" ->
       <<"f","d","b","2","7","d","3","3","1","d","0","d","3","1","8","c","c","e","b","a","0","5","0","0","d","7","5","0","0","b","e","e">>
    [] bytes = "a" ->
       <<"0","c","c","1","7","5","b","9","c","0","f","1","b","6","a","8","3","1","c","3","9","9","e","2","6","9","7","7","2","6","6","1">>
    [] bytes = "abc" ->
       <<"9","0","0","1","5","0","9","8","3","c","d","2","4","f","b","0","d","6","9","6","3","f","7","d","2","8","e","1","7","f","7","2">>
    [] bytes = "200" ->
       <<"3","6","4","4","a","6","8","4","f","9","8","e","a","8","f","e","2","2","3","c","7","1","3","b","7","7","1","8","9","a","7","7">>
    [] bytes = "1000000" ->
       <<"8","1","5","5","b","c","5","4","5","f","8","4","d","9","6","5","2","f","1","0","1","2","e","f","2","b","d","f","b","6","e","b">>
    [] bytes = "2102394" ->
       <<"2","f","8","1","6","8","f","1","1","0","c","7","e","9","8","b","c","3","2","f","1","5","9","3","1","0","d","6","4","d","3","a">>
    [] bytes = "2102395" ->
       <<"3","8","0","8","0","e","d","8","b","4","6","4","3","8","c","8","3","0","4","6","7","4","8","f","2","f","a","8","1","b","f","3">>
    [] bytes = "10491002" ->
       <<"c","3","1","1","6","3","5","a","d","3","f","c","d","6","7","7","9","d","1","3","7","5","f","d","9","6","5","4","8","a","a","0">>
    [] bytes = "10491003" ->
       <<"d","0","a","1","c","7","8","5","5","7","0","8","6","6","e","6","7","f","d","a","7","b","0","c","3","4","a","c","f","d","2","2">>
    [] bytes = "15000000" ->
       <<"e","b","e","8","a","7","f","4","6","1","0","d","8","8","a","2","0","b","6","7","1","3","e","9","b","0","9","d","e","1","0","6">>
    [] bytes = "25000000" ->
       <<"f","9","6","3","7","c","8","1","6","d","e","7","1","6","b","5","4","c","5","b","2","4","b","5","6","f","1","8","9","7","1","4">>
    [] bytes = "RIFFtail" ->
       <<"6","7","1","e","9","b","2","d","f","7","d","1","7","8","9","2","d","d","4","4","1","8","3","3","4","3","0","a","5","7","2","1">>
    [] bytes = "RIFFmore" ->
       <<"1","8","a","c","c","4","9","9","1","7","3","3","9","3","5","8","4","4","b","8","5","5","f","5","9","6","9","1","9","d","e","8">>
    [] bytes = "abctail" ->
       <<"b","3","5","9","5","b","1","1","6","0","d","3","a","2","a","c","9","9","3","b","6","c","a","9","d","4","5","6","f","8","1","f">>
    [] bytes = "abcmore" ->
       <<"b","1","e","3","c","0","2","9","a","f","4","6","f","2","1","3","f","a","4","a","0","1","2","1","d","e","d","3","f","2","5","4">>
    [] bytes = "" ->
       <<"d","4","1","d","8","c","d","9","8","f","0","0","b","2","0","4","e","9","8","0","0","9","9","8","e","c","f","8","4","2","7","e">>
    [] bytes = "avc1" ->
       <<"1","7","f","9","c","0","c","0","b","1","5","8","e","d","0","0","6","c","b","2","e","0","9","d","8","4","1","9","c","3","6","2">>
    [] bytes = "WAVE" ->
       <<"3","4","c","8","3","b","e","e","d","9","e","4","1","c","7","f","4","9","c","7","8","3","0","9","7","a","7","c","7","6","0","a">>
    [] bytes = "dinf" ->
       <<"4","e","5","9","4","1","7","b","c","2","b","6","c","b","b","2","f","3","2","1","7","a","6","0","d","e","e","9","1","0","f","c">>
    [] bytes = "trak" ->
       <<"5","d","e","f","c","4","1","6","8","a","0","0","8","d","4","a","c","6","1","9","9","1","a","0","d","5","d","c","8","6","4","9">>
    [] bytes = "styp" ->
       <<"6","2","2","4","f","9","b","0","f","6","0","e","8","6","d","5","e","a","e","3","5","1","5","8","5","f","b","f","9","d","d","8">>
    [] bytes = "PICT" ->
       <<"7","5","5","c","f","a","2","d","d","0","f","1","6","e","0","0","1","f","f","a","2","f","0","1","a","2","e","0","f","a","8","e">>
    [] bytes = "WEBM" ->
       <<"8","1","f","9","3","6","d","7","4","f","2","9","c","e","7","2","5","8","a","a","0","5","2","1","7","d","5","5","f","5","d","e">>
    [] bytes = "mdat" ->
       <<"a","3","c","4","a","4","1","f","2","9","c","a","0","0","8","8","7","7","9","8","a","6","4","a","7","4","c","e","e","6","1","2">>
    [] bytes = "FLV" ->
       <<"b","c","1","2","a","8","a","4","d","3","d","7","8","6","8","2","b","c","b","7","f","c","c","6","2","c","d","2","5","4","8","a">>
    [] bytes = "GIF8" ->
       <<"c","6","0","7","7","0","0","6","0","7","1","1","6","d","8","6","4","5","9","4","9","b","3","a","0","5","b","6","a","4","a","9">>
    [] bytes = "OggS" ->
       <<"d","7","5","1","2","8","2","8","6","c","9","5","b","1","b","2","e","9","2","4","4","7","9","7","7","b","8","0","a","a","1","8">>
    [] bytes = "AVI" ->
       <<"e","4","8","2","f","6","d","c","6","f","0","1","1","5","9","c","4","2","3","a","0","6","8","5","7","3","0","5","0","1","f","b">>
    [] bytes = "0" ->
       <<"c","f","c","d","2","0","8","4","9","5","d","5","6","5","e","f","6","6","e","7","d","f","f","9","f","9","8","7","6","4","d","a">>
    [] bytes = "4999999" ->
       <<"d","9","e","f","0","5","8","8","1","d","e","c","e","9","e","1","1","8","a","8","c","8","2","5","6","d","1","0","a","5","f","b">>
    [] bytes = "5000000" ->
       <<"d","1","5","2","4","a","d","b","b","d","8","e","e","d","2","b","f","4","d","4","2","4","a","3","1","1","a","3","c","6","f","d">>
    [] bytes = "5237637" ->
       <<"0","2","f","f","1","f","9","8","b","f","3","a","2","b","0","d","8","7","3","c","9","d","7","3","a","6","3","4","d","8","6","f">>
    [] bytes = "5237638" ->
       <<"4","8","8","1","0","c","7","a","e","7","6","8","8","d","3","5","9","1","0","f","d","a","3","0","7","1","7","2","1","b","a","c">>
    [] bytes = "20000000" ->
       <<"5","e","c","e","a","d","a","f","b","a","9","f","7","d","f","0","5","d","2","4","5","0","4","9","d","9","d","2","d","e","4","e">>
    [] bytes = "20966277" ->
       <<"d","f","f","d","f","e","3","7","2","8","4","7","4","5","1","c","e","d","4","6","d","3","f","8","8","f","d","7","1","0","0","9">>
    [] bytes = "20966278" ->
       <<"2","9","c","c","6","6","c","6","c","d","4","f","9","7","3","e","a","7","4","6","b","3","5","9","9","d","e","8","e","5","d","3">>

\* ------------------------------------------------------ signal extraction

\* Round the fraction n/d (n >= 0, d > 0) to the nearest integer, ties to even:
\* round() on a float that represents n/d exactly.
RoundHalfEven(n, d) ==
  LET q == n \div d
      r == n % d
  IN IF 2 * r < d THEN q
     ELSE IF 2 * r > d THEN q + 1
     ELSE IF q % 2 = 0 THEN q ELSE q + 1

\* Mutant: megabytes of 1,000,000 bytes.
FileSizeMb_Decimal(file_size) ==
  100 * (file_size \div 1000000) + RoundHalfEven(100 * (file_size % 1000000), 1000000)

\* round(file_size / (1024 * 1024), 2), in hundredths.
FileSizeMb(file_size) ==
  100 * (file_size \div MiB) + RoundHalfEven(100 * (file_size % MiB), MiB)

\* The file hash: md5 of f.read(1024), or md5 of str(file_size) when the file
\* cannot be opened or read.  `content` is [head, rest]: the first 1 KiB of the
\* file and what follows it.
FileHash_WholeFile(content, readable, file_size) ==
  IF readable THEN MD5(content.head \o content.rest) ELSE MD5(ToString(file_size))

FileHash_NoFallback(content, readable, file_size) == MD5(content.head)

FileHash(content, readable, file_size) ==
  IF readable THEN MD5(content.head) ELSE MD5(ToString(file_size))

extract_deterministic_signals_NameInBand(content, readable, filename, file_size) ==
  LET file_hash == FileHash(content, readable, file_size)
      file_size_mb == FileSizeMb(file_size)
  IN [ file_size_mb |-> file_size_mb,
       file_size_category |->
         IF file_size_mb < SIZE_SMALL_BELOW THEN "SMALL"
         ELSE IF file_size_mb < SIZE_MEDIUM_BELOW THEN "MEDIUM" ELSE "LARGE",
       estimated_bitrate_category |->
         IF file_size < BITRATE_LOW_BELOW THEN "LOW"
         ELSE IF file_size < BITRATE_MEDIUM_BELOW THEN "MEDIUM" ELSE "HIGH",
       file_hash |-> file_hash,
       complexity_indicator |->
         IF Ord(file_hash[1]) < Ord("8") THEN "LOW_COMPLEXITY" ELSE "HIGH_COMPLEXITY",
       filename_indicators |->
         [ has_compressed_keywords |-> re_search(COMPRESSED_KEYWORDS, filename),
           has_hd_keywords |-> re_search(HD_KEYWORDS, filename),
           has_mobile_keywords |-> re_search(MOBILE_KEYWORDS, filename),
           has_social_keywords |-> re_search(SOCIAL_KEYWORDS, filename) ],
       file_extension |-> FileExtension(filename),
       estimated_quality_band |->
         QUALITY_BANDS[((HexByte(file_hash[3], file_hash[4]) + Len(filename)) % 3) + 1] ]

extract_deterministic_signals(content, readable, filename, file_size) ==
  LET file_hash == FileHash(content, readable, file_size)
      file_size_mb == FileSizeMb(file_size)
  IN [ file_size_mb |-> file_size_mb,
       file_size_category |->
         IF file_size_mb < SIZE_SMALL_BELOW THEN "SMALL"
         ELSE IF file_size_mb < SIZE_MEDIUM_BELOW THEN "MEDIUM" ELSE "LARGE",
       estimated_bitrate_category |->
         IF file_size < BITRATE_LOW_BELOW THEN "LOW"
         ELSE IF file_size < BITRATE_MEDIUM_BELOW THEN "MEDIUM" ELSE "HIGH",
       file_hash |-> file_hash,
       complexity_indicator |->
         IF Ord(file_hash[1]) < Ord("8") THEN "LOW_COMPLEXITY" ELSE "HIGH_COMPLEXITY",
       filename_indicators |->
         [ has_compressed_keywords |-> re_search(COMPRESSED_KEYWORDS, filename),
           has_hd_keywords |-> re_search(HD_KEYWORDS, filename),
           has_mobile_keywords |-> re_search(MOBILE_KEYWORDS, filename),
           has_social_keywords |-> re_search(SOCIAL_KEYWORDS, filename) ],
       file_extension |-> FileExtension(filename),
       estimated_quality_band |->
         QUALITY_BANDS[(HexByte(file_hash[3], file_hash[4]) % 3) + 1] ]

\* --------------------------------------------------------- routing policy

HashSeeds == 0..MaxSeed

RemoveAt(s, i) == SubSeq(s, 1, i - 1) \o SubSeq(s, i + 1, Len(s))

\* The k-th arrangement of pool (factorial number system, last position in
\* the lowest digit): k = 0 .. Len(pool)! - 1 gives every arrangement, and
\* k = 0 gives pool itself.
RECURSIVE Arrangement(_, _)
Arrangement(k, pool) ==
  IF pool = <<>> THEN <<>>
  ELSE LET i == Len(pool) - (k % Len(pool))
       IN Arrangement(k \div Len(pool), RemoveAt(pool, i)) \o <<pool[i]>>

\* The order in which a set of strings is iterated in a process whose string
\* hashes are salted with `seed`: fixed within the process, arbitrary between
\* processes.
IterationOrder(seed) == Arrangement(seed, MODELS)

\* Mutant: the emitted list is capped at three specialists.
ListOfSet_Capped(specialists, seed) ==
  LET members == SelectSeq(IterationOrder(seed), LAMBDA m : m \in Range(specialists))
  IN SubSeq(members, 1, IF Len(members) < 3 THEN Len(members) ELSE 3)

\* list(set(specialists)): each member once, in the set's iteration order.
ListOfSet(specialists, seed) ==
  SelectSeq(IterationOrder(seed), LAMBDA m : m \in Range(specialists))

Reason(template, args) == [template |-> template, args |-> args]

CM_REASON == "Compression artifacts likely: {} bitrate, {} file size"
LL_REASON == "Low-light conditions likely: {} complexity, {} quality band"
RR_REASON == "Resolution inconsistencies likely: size/format mismatch detected"
AV_REASON == "Audio-visual analysis: file size suggests audio content present"
TM_REASON == "Temporal analysis: {}MB file with {} complexity"

\* Mutant: the specialist list is assigned instead of appended to.
Selected_Overwrite(acc, specialist, reason) ==
  [ specialists |-> <<specialist>>,
    routing_reasons |-> Append(acc.routing_reasons, reason) ]

\* Mutant: the reason is inserted at the front of routing_reasons.
Selected_ReasonFirst(acc, specialist, reason) ==
  [ specialists |-> Append(acc.specialists, specialist),
    routing_reasons |-> <<reason>> \o acc.routing_reasons ]

\* The accumulated lists of apply_deterministic_routing_policy.
Selected(acc, specialist, reason) ==
  [ specialists |-> Append(acc.specialists, specialist),
    routing_reasons |-> Append(acc.routing_reasons, reason) ]

\* Mutant: the baseline is not put into the list.
Baseline_Missing == [specialists |-> <<>>, routing_reasons |-> <<>>]

\* specialists = ['BG-Model N']; routing_reasons = []
Baseline == [specialists |-> <<"BG-Model N">>, routing_reasons |-> <<>>]

\* Mutant: the social keywords are not consulted.
Rule1_NoSocial(signals, acc) ==
  IF \/ signals.estimated_bitrate_category = "LOW"
     \/ signals.file_size_category = "SMALL"
     \/ signals.filename_indicators.has_compressed_keywords
  THEN Selected(acc, "CM-Model N",
                Reason(CM_REASON, << signals.estimated_bitrate_category,
                                     signals.file_size_category >>))
  ELSE acc

\* Rule 1: Compression Model (CM)
Rule1(signals, acc) ==
  IF \/ signals.estimated_bitrate_category = "LOW"
     \/ signals.file_size_category = "SMALL"
     \/ signals.filename_indicators.has_compressed_keywords
     \/ signals.filename_indicators.has_social_keywords
  THEN Selected(acc, "CM-Model N",
                Reason(CM_REASON, << signals.estimated_bitrate_category,
                                     signals.file_size_category >>))
  ELSE acc

\* Mutant: MEDIUM quality counts as low as well.
Rule2_MediumBand(signals, acc) ==
  IF \/ signals.complexity_indicator = "LOW_COMPLEXITY"
     \/ signals.estimated_quality_band \in {"LOW", "MEDIUM"}
     \/ signals.filename_indicators.has_mobile_keywords
  THEN Selected(acc, "LL-Model N",
                Reason(LL_REASON, << signals.complexity_indicator,
                                     signals.estimated_quality_band >>))
  ELSE acc

\* Mutant: the complexity is not among the Low-light conditions.
Rule2_NoComplexity(signals, acc) ==
  IF \/ signals.estimated_quality_band = "LOW"
     \/ signals.filename_indicators.has_mobile_keywords
  THEN Selected(acc, "LL-Model N",
                Reason(LL_REASON, << signals.complexity_indicator,
                                     signals.estimated_quality_band >>))
  ELSE acc

\* Rule 2: Low-Light Model (LL)
Rule2(signals, acc) ==
  IF \/ signals.complexity_indicator = "LOW_COMPLEXITY"
     \/ signals.estimated_quality_band = "LOW"
     \/ signals.filename_indicators.has_mobile_keywords
  THEN Selected(acc, "LL-Model N",
                Reason(LL_REASON, << signals.complexity_indicator,
                                     signals.estimated_quality_band >>))
  ELSE acc

\* Mutant: the hd mismatch is tested on LARGE files, like the mobile one.
Rule3_HdOnLarge(signals, acc) ==
  IF \/ /\ signals.file_size_category = "LARGE"
        /\ signals.filename_indicators.has_mobile_keywords
     \/ /\ signals.file_size_category = "LARGE"
        /\ signals.filename_indicators.has_hd_keywords
     \/ signals.file_extension \in {EXT_WEBM, EXT_MKV}
  THEN Selected(acc, "RR-Model N", Reason(RR_REASON, <<>>))
  ELSE acc

\* Rule 3: Resolution Model (RR)
Rule3(signals, acc) ==
  IF \/ /\ signals.file_size_category = "LARGE"
        /\ signals.filename_indicators.has_mobile_keywords
     \/ /\ signals.file_size_category = "SMALL"
        /\ signals.filename_indicators.has_hd_keywords
     \/ signals.file_extension \in {EXT_WEBM, EXT_MKV}
  THEN Selected(acc, "RR-Model N", Reason(RR_REASON, <<>>))
  ELSE acc

\* Mutant: the size test is >= 2 instead of > 2.
Rule4_AtLeast(signals, acc) ==
  IF /\ signals.file_size_mb >= AV_SIZE_ABOVE
     /\ ~signals.filename_indicators.has_compressed_keywords
  THEN Selected(acc, "AV-Model N", Reason(AV_REASON, <<>>))
  ELSE acc

\* Mutant: the rule is an elif of rule 3: skipped when RR was just selected.
Rule4_Elif(signals, acc) ==
  IF /\ "RR-Model N" \notin Range(acc.specialists)
     /\ signals.file_size_mb > AV_SIZE_ABOVE
     /\ ~signals.filename_indicators.has_compressed_keywords
  THEN Selected(acc, "AV-Model N", Reason(AV_REASON, <<>>))
  ELSE acc

\* Rule 4: Audio-Visual Model (AV)
Rule4(signals, acc) ==
  IF /\ signals.file_size_mb > AV_SIZE_ABOVE
     /\ ~signals.filename_indicators.has_compressed_keywords
  THEN Selected(acc, "AV-Model N", Reason(AV_REASON, <<>>))
  ELSE acc

\* Mutant: both conditions are required.
Rule5_And(signals, acc) ==
  IF /\ signals.file_size_mb > TM_SIZE_ABOVE
     /\ signals.complexity_indicator = "HIGH_COMPLEXITY"
  THEN Selected(acc, "TM-Model",
                Reason(TM_REASON, << ToString(signals.file_size_mb),
                                     signals.complexity_indicator >>))
  ELSE acc

\* Rule 5: Temporal Model (TM)
Rule5(signals, acc) ==
  IF \/ signals.file_size_mb > TM_SIZE_ABOVE
     \/ signals.complexity_indicator = "HIGH_COMPLEXITY"
  THEN Selected(acc, "TM-Model",
                Reason(TM_REASON, << ToString(signals.file_size_mb),
                                     signals.complexity_indicator >>))
  ELSE acc

\* The return statement: the specialists through list(set(...)).
RoutingResult(signals, acc, seed) ==
  [ specialists_selected |-> ListOfSet(acc.specialists, seed),
    routing_reasons |-> acc.routing_reasons,
    routing_type |-> "DETERMINISTIC",
    signals_used |-> signals ]

apply_deterministic_routing_policy(signals, seed) ==
  RoutingResult(signals,
                Rule5(signals, Rule4(signals, Rule3(signals,
                  Rule2(signals, Rule1(signals, Baseline))))),
                seed)

\* ----------------------------------------------------- routing explanation

\* Mutant: the count is taken from the reasons.
generate_routing_explanation_CountReasons(routing_result) ==
  LET signals_used == routing_result.signals_used
  IN [ routing_decision |-> "DETERMINISTIC",
       consistency_guarantee |->
         "This routing decision will be identical for this file every time",
       specialists_selected |-> routing_result.specialists_selected,
       total_specialists |-> Len(routing_result.routing_reasons),
       routing_reasons |-> routing_result.routing_reasons,
       deterministic_signals |->
         [ file_characteristics |->
             [ size_mb |-> signals_used.file_size_mb,
               size_category |-> signals_used.file_size_category,
               bitrate_category |-> signals_used.estimated_bitrate_category,
               quality_band |-> signals_used.estimated_quality_band,
               complexity |-> signals_used.complexity_indicator ],
           filename_analysis |-> signals_used.filename_indicators,
           file_format |-> signals_used.file_extension ],
       routing_logic |->
         "File-based characteristics -> Policy rules -> Specialist selection" ]

generate_routing_explanation(routing_result) ==
  LET specialists_selected == routing_result.specialists_selected
      routing_reasons == routing_result.routing_reasons
      signals_used == routing_result.signals_used
  IN [ routing_decision |-> "DETERMINISTIC",
       consistency_guarantee |->
         "This routing decision will be identical for this file every time",
       specialists_selected |-> specialists_selected,
       total_specialists |-> Len(specialists_selected),
       routing_reasons |-> routing_reasons,
       deterministic_signals |->
         [ file_characteristics |->
             [ size_mb |-> signals_used.file_size_mb,
               size_category |-> signals_used.file_size_category,
               bitrate_category |-> signals_used.estimated_bitrate_category,
               quality_band |-> signals_used.estimated_quality_band,
               complexity |-> signals_used.complexity_indicator ],
           filename_analysis |-> signals_used.filename_indicators,
           file_format |-> signals_used.file_extension ],
       routing_logic |->
         "File-based characteristics -> Policy rules -> Specialist selection" ]

\* ------------------------------------------------------------------ state

VARIABLES
  \* the /predict requests
  pc,            \* where each request's handler stands
  upload,        \* the uploaded file of each request: filename, file_size, content
  hashSeed,      \* the string-hash salt of the process that serves the request
  tmpfs,         \* the temp directory: the content of each file that exists, by path
  read_ok,       \* whether the digest read of the temp file succeeded
  deterministic_signals,  \* deterministic_signals of each request
  routing,       \* routing_result of each request
  response,      \* what each request was answered with
  \* one evaluation of the routing policy, statement by statement, and the
  \* explanation generated from its result
  route_pc,
  route_signals,
  route_acc,
  route_result,
  route_report,
  \* one extraction followed by one routing
  ex_pc,
  ex_input,      \* filename, file_size, content, and whether the content can be read
  ex_signals,
  ex_routing

vars == << pc, upload, hashSeed, tmpfs, read_ok, deterministic_signals, routing,
           response,
           route_pc, route_signals, route_acc, route_result, route_report,
           ex_pc, ex_input, ex_signals, ex_routing >>

requestVars ==
  << pc, upload, hashSeed, tmpfs, read_ok, deterministic_signals, routing, response >>
routeVars == << route_pc, route_signals, route_acc, route_result, route_report >>
extractVars == << ex_pc, ex_input, ex_signals, ex_routing >>

Requests == {"r1", "r2"}

NoFile == [head |-> "", rest |-> "", absent |-> TRUE]
NoSignals == [none |-> TRUE]
NoRouting == [routing_type |-> "NONE"]
NoAcc == [specialists |-> <<>>, routing_reasons |-> <<>>]
NoReport == [routing_decision |-> "NONE"]
NoInput == [none |-> TRUE]
NoResponse == [pending |-> TRUE]

\* ----------------------------------------------------------------- inputs

FILENAMES ==
  { <<"c","l","i","p","_","c","o","m","p","r","e","s","s","e","d",".","m","p","4">>,
    <<"m","o","b","i","l","e","_","v","i","d","e","o",".","m","o","v">>,
    <<"u","h","d",".","m","k","v">>,
    <<"N","o","n","H","D",".","M","K","V">> }

FILE_SIZES == {200, 15000000}

\* A content is its first READ_LIMIT bytes and what follows them.
CONTENTS == {[head |-> h, rest |-> t] : h \in {"RIFF", "abc"}, t \in {"", "tail", "more"}}

\* The uploads: something follows the first READ_LIMIT bytes exactly in the
\* files that are longer.
Uploads ==
  {u \in [filename : FILENAMES, file_size : FILE_SIZES, content : CONTENTS] :
     (u.content.rest = "") <=> (u.file_size <= READ_LIMIT)}

\* temp_path: the temp directory, a fresh uuid4 and the declared filename.
\* The uuid4 of a request is modelled by the request's name.
TempPath_NoUuid(r) == [uuid |-> "", filename |-> upload[r].filename]

TempPath(r) == [uuid |-> r, filename |-> upload[r].filename]

\* The temp directory with a file written (created or overwritten), removed.
NoFiles == [p \in {} |-> NoFile]
WriteFile(fs, path, content) ==
  [p \in DOMAIN fs \cup {path} |-> IF p = path THEN content ELSE fs[p]]
RemoveFile(fs, path) == [p \in DOMAIN fs \ {path} |-> fs[p]]

\* Every combination of signal values the policy reads; file_size_mb on both
\* sides of the two size thresholds.
SIZE_MB_VALUES == {AV_SIZE_ABOVE, AV_SIZE_ABOVE + 1, TM_SIZE_ABOVE, TM_SIZE_ABOVE + 1}

AllSignals ==
  {[ file_size_mb |-> mb,
     file_size_category |-> sc,
     estimated_bitrate_category |-> bc,
     file_hash |-> MD5("a"),
     complexity_indicator |-> cx,
     filename_indicators |->
       [ has_compressed_keywords |-> kc, has_hd_keywords |-> kh,
         has_mobile_keywords |-> km, has_social_keywords |-> ks ],
     file_extension |-> ext,
     estimated_quality_band |-> qb ] :
     mb \in SIZE_MB_VALUES,
     sc \in {"SMALL", "MEDIUM", "LARGE"},
     bc \in {"LOW", "MEDIUM", "HIGH"},
     cx \in {"LOW_COMPLEXITY", "HIGH_COMPLEXITY"},
     kc \in BOOLEAN, kh \in BOOLEAN, km \in BOOLEAN, ks \in BOOLEAN,
     ext \in {EXT_MP4, EXT_WEBM, EXT_MKV, EXT_UNKNOWN},
     qb \in Range(QUALITY_BANDS)}

\* The inputs of one extraction.  Filenames: every text of up to MaxNameLen
\* characters over NAME_ALPHABET, and longer names.
NAME_ALPHABET == {"h", "d", "H", "4", "k", "K", ".", "x"}

RECURSIVE NamesOfLen(_)
NamesOfLen(n) ==
  IF n = 0 THEN {<<>>}
  ELSE {Append(name, c) : name \in NamesOfLen(n - 1), c \in NAME_ALPHABET}

SHORT_NAMES == UNION {NamesOfLen(n) : n \in 1..MaxNameLen}

LONG_NAMES ==
  { <<"n","o","n","h","d",".","m","p","4">>,
    <<"N","o","n","H","D",".","m","p","4">>,
    <<"N","o","n","H","D",".","M","K","V">>,
    <<"c","l","i","p",".","M","k","v">>,
    <<"a",".","W","E","B","M">>,
    <<"v","i","d","e","o">>,
    <<"v","i","d","e","o",".","m","p","4">>,
    <<"m","k","v">>,
    <<"c","l","i","p",".","m","k","v",".","b","a","k">>,
    <<"a","r","c","h","i","v","e",".","t","a","r",".","W","e","b","m">>,
    <<"c","l","i","p",".">>,
    <<"c","l","i","p","_","c","o","m","p","r","e","s","s","e","d",".","m","p","4">>,
    <<"C","O","M","P","R","E","S","S",".","m","p","4">>,
    <<"c","o","m","p","r","e","s",".","m","p","4">>,
    <<"s","l","o","w","m","o",".","m","o","v">>,
    <<"S","m","a","l","l","e","r",".","a","v","i">>,
    <<"e","L","i","T","e",".","m","p","4">>,
    <<"c","l","i","p","_","1","0","8","0","p",".","m","p","4">>,
    <<"7","2","0",".","m","p","4">>,
    <<"1","0","8",".","0">>,
    <<"m","o","b","i","l","e","_","v","i","d","e","o",".","m","o","v">>,
    <<"i","P","h","o","n","e","1","2",".","M","O","V">>,
    <<"W","h","a","t","s","A","p","p","7",".","m","p","4">>,
    <<"m","y","t","e","l","e","g","r","a","m",".","m","p","4">>,
    <<"m","o","b","i","_","l","e",".","m","p","4">>,
    <<"I","n","s","t","a","g","r","a","m",".","m","p","4">>,
    <<"x","T","i","k","T","o","k","x",".","m","p","4">>,
    <<"s","n","a","p","c","h","a","t",".","w","e","b","m">>,
    <<"F","A","C","E","B","O","O","K">>,
    <<"f","a","c","e","_","b","o","o","k",".","m","p","4">>,
    <<"l","o","w","_","m","o","b","i","l","e","_","t","i","k","t","o","k","_","4","K",".","m","k","v">> }

EX_FILENAMES == SHORT_NAMES \cup LONG_NAMES

\* Sizes on both sides of every threshold of the size category, the bitrate
\* category and the rules, and the empty file.
EX_FILE_SIZES ==
  { 0, 200, 2102394, 2102395, 4999999, 5000000, 5237637, 5237638,
    10491002, 10491003, 20000000, 20966277, 20966278, 25000000 }

\* First bytes whose digests start with each of the sixteen hex digits.
EX_HEADS ==
  { "ftyp", "avc1", "RIFF", "WAVE", "dinf", "trak", "styp", "PICT",
    "WEBM", "abc", "mdat", "FLV", "GIF8", "OggS", "AVI", "EBML" }

ContentsOfSize(file_size) ==
  IF file_size = 0 THEN {[head |-> "", rest |-> ""]}
  ELSE {[head |-> h, rest |-> IF file_size > READ_LIMIT THEN "tail" ELSE ""] :
          h \in EX_HEADS}

\* Every filename on one file, and every size, first bytes and outcome of the
\* read under three filenames.
ExtractInputs ==
  {[filename |-> n, file_size |-> 5237637, readable |-> TRUE,
    content |-> [head |-> "RIFF", rest |-> "tail"]] : n \in EX_FILENAMES}
  \cup
  UNION {{[filename |-> n, file_size |-> z, readable |-> b, content |-> c] :
            n \in { <<"v","i","d","e","o",".","m","p","4">>,
                    <<"c","l","i","p","_","c","o","m","p","r","e","s","s","e","d",".","m","p","4">>,
                    <<"m","o","b","i","l","e","_","v","i","d","e","o",".","m","o","v">> },
            b \in BOOLEAN, c \in ContentsOfSize(z)} : z \in EX_FILE_SIZES}

\* --------------------------------------------------- the /predict handler

RequestsInit ==
  /\ pc = [r \in Requests |-> "received"]
  /\ upload \in [Requests -> Uploads]
  /\ hashSeed \in [Requests -> HashSeeds]
  /\ tmpfs = NoFiles
  /\ read_ok = [r \in Requests |-> TRUE]
  /\ deterministic_signals = [r \in Requests |-> NoSignals]
  /\ routing = [r \in Requests |-> NoRouting]
  /\ response = [r \in Requests |-> NoResponse]

RequestsIdle ==
  /\ pc = [r \in Requests |-> "idle"]
  /\ upload = [r \in Requests |-> CHOOSE u \in Uploads : TRUE]
  /\ hashSeed = [r \in Requests |-> 0]
  /\ tmpfs = NoFiles
  /\ read_ok = [r \in Requests |-> TRUE]
  /\ deterministic_signals = [r \in Requests |-> NoSignals]
  /\ routing = [r \in Requests |-> NoRouting]
  /\ response = [r \in Requests |-> NoResponse]

\* content = await file.read(); the content is written to temp_path.
SaveUpload(r) ==
  /\ pc[r] = "received"
  /\ tmpfs' = WriteFile(tmpfs, TempPath(r), upload[r].content)
  /\ pc' = [pc EXCEPT ![r] = "saved"]
  /\ UNCHANGED << upload, hashSeed, read_ok, deterministic_signals, routing, response >>

\* extract_deterministic_signals on the temp file, then the routing policy.
\* Opening or reading the temp file may fail, and fails when no file is at
\* temp_path; the digest then falls back.
RouteUpload(r) ==
  /\ pc[r] = "saved"
  /\ \E ok \in BOOLEAN :
       LET present == TempPath(r) \in DOMAIN tmpfs
           content == IF present THEN tmpfs[TempPath(r)] ELSE NoFile
           extracted ==
             extract_deterministic_signals(content, ok /\ present,
                                           upload[r].filename, upload[r].file_size)
       IN /\ read_ok' = [read_ok EXCEPT ![r] = ok /\ present]
          /\ deterministic_signals' = [deterministic_signals EXCEPT ![r] = extracted]
          /\ routing' = [routing EXCEPT ![r] =
               apply_deterministic_routing_policy(extracted, hashSeed[r])]
  /\ pc' = [pc EXCEPT ![r] = "routed"]
  /\ UNCHANGED << upload, hashSeed, tmpfs, response >>

\* analyze_video, generate_prediction and generate_routing_explanation
\* succeed; finally: if os.path.exists(temp_path): os.remove(temp_path); the
\* result is returned.
Respond(r) ==
  /\ pc[r] = "routed"
  /\ tmpfs' = RemoveFile(tmpfs, TempPath(r))
  /\ response' = [response EXCEPT ![r] = [status_code |-> 200]]
  /\ pc' = [pc EXCEPT ![r] = "done"]
  /\ UNCHANGED << upload, hashSeed, read_ok, deterministic_signals, routing >>

\* The statements of the try block that may raise, by where the handler
\* stands: reading the upload, opening temp_path, writing to it; extracting
\* the signals, routing; analysis, prediction, explanation.
FAILING_STEPS ==
  [ received |-> {"read", "open", "write"},
    saved |-> {"extract", "route"},
    routed |-> {"analyze", "predict", "explain"} ]

\* What a failed write leaves in the file it had opened.
PartialContent == [head |-> "", rest |-> ""]

\* The temp directory when `step` of request r raises: the file exists from
\* the opening of temp_path on.
RaisedAt(r, step) ==
  IF step = "write" THEN WriteFile(tmpfs, TempPath(r), PartialContent) ELSE tmpfs

\* Mutant: the temp file is removed at the end of the try block only.
Fail_LeavesFile(r) ==
  /\ pc[r] \in DOMAIN FAILING_STEPS
  /\ tmpfs' \in {RaisedAt(r, step) : step \in FAILING_STEPS[pc[r]]}
  /\ response' = [response EXCEPT ![r] = [status_code |-> 500]]
  /\ read_ok' = [read_ok EXCEPT ![r] = TRUE]
  /\ deterministic_signals' = [deterministic_signals EXCEPT ![r] = NoSignals]
  /\ routing' = [routing EXCEPT ![r] = NoRouting]
  /\ pc' = [pc EXCEPT ![r] = "failed"]
  /\ UNCHANGED << upload, hashSeed >>

\* A statement of the try block raises; except Exception: HTTPException 500;
\* finally: if os.path.exists(temp_path): os.remove(temp_path).  The locals
\* of the handler are gone.
Fail(r) ==
  /\ pc[r] \in DOMAIN FAILING_STEPS
  /\ tmpfs' \in {RemoveFile(RaisedAt(r, step), TempPath(r)) :
                   step \in FAILING_STEPS[pc[r]]}
  /\ response' = [response EXCEPT ![r] = [status_code |-> 500]]
  /\ read_ok' = [read_ok EXCEPT ![r] = TRUE]
  /\ deterministic_signals' = [deterministic_signals EXCEPT ![r] = NoSignals]
  /\ routing' = [routing EXCEPT ![r] = NoRouting]
  /\ pc' = [pc EXCEPT ![r] = "failed"]
  /\ UNCHANGED << upload, hashSeed >>

\* ------------------------------------- the policy, statement by statement

RouteInit ==
  /\ route_pc = "baseline"
  /\ route_signals \in AllSignals
  /\ route_acc = NoAcc
  /\ route_result = NoRouting
  /\ route_report = NoReport

RouteIdle ==
  /\ route_pc = "idle"
  /\ route_signals = NoSignals
  /\ route_acc = NoAcc
  /\ route_result = NoRouting
  /\ route_report = NoReport

StepBaseline ==
  /\ route_pc = "baseline"
  /\ route_acc' = Baseline
  /\ route_pc' = "rule1"
  /\ UNCHANGED << route_signals, route_result, route_report >>

StepRule1 ==
  /\ route_pc = "rule1"
  /\ route_acc' = Rule1(route_signals, route_acc)
  /\ route_pc' = "rule2"
  /\ UNCHANGED << route_signals, route_result, route_report >>

StepRule2 ==
  /\ route_pc = "rule2"
  /\ route_acc' = Rule2(route_signals, route_acc)
  /\ route_pc' = "rule3"
  /\ UNCHANGED << route_signals, route_result, route_report >>

StepRule3 ==
  /\ route_pc = "rule3"
  /\ route_acc' = Rule3(route_signals, route_acc)
  /\ route_pc' = "rule4"
  /\ UNCHANGED << route_signals, route_result, route_report >>

StepRule4 ==
  /\ route_pc = "rule4"
  /\ route_acc' = Rule4(route_signals, route_acc)
  /\ route_pc' = "rule5"
  /\ UNCHANGED << route_signals, route_result, route_report >>

StepRule5 ==
  /\ route_pc = "rule5"
  /\ route_acc' = Rule5(route_signals, route_acc)
  /\ route_pc' = "return"
  /\ UNCHANGED << route_signals, route_result, route_report >>

\* The return statement, in a process with any hash salt.
StepReturn ==
  /\ route_pc = "return"
  /\ \E seed \in HashSeeds :
       route_result' = RoutingResult(route_signals, route_acc, seed)
  /\ route_pc' = "done"
  /\ UNCHANGED << route_signals, route_acc, route_report >>

\* generate_routing_explanation(routing_result)
StepExplain ==
  /\ route_pc = "done"
  /\ route_report' = generate_routing_explanation(route_result)
  /\ route_pc' = "explained"
  /\ UNCHANGED << route_signals, route_acc, route_result >>

\* ------------------------------------------- one extraction, one routing

ExtractInit ==
  /\ ex_pc = "start"
  /\ ex_input \in ExtractInputs
  /\ ex_signals = NoSignals
  /\ ex_routing = NoRouting

ExtractIdle ==
  /\ ex_pc = "idle"
  /\ ex_input = NoInput
  /\ ex_signals = NoSignals
  /\ ex_routing = NoRouting

\* deterministic_signals = extract_deterministic_signals(temp_path, filename, file_size)
ExtractSignals ==
  /\ ex_pc = "start"
  /\ ex_signals' = extract_deterministic_signals(ex_input.content, ex_input.readable,
                                                 ex_input.filename, ex_input.file_size)
  /\ ex_pc' = "extracted"
  /\ UNCHANGED << ex_input, ex_routing >>

\* routing_result = apply_deterministic_routing_policy(deterministic_signals)
RouteSignals ==
  /\ ex_pc = "extracted"
  /\ \E seed \in HashSeeds :
       ex_routing' = apply_deterministic_routing_policy(ex_signals, seed)
  /\ ex_pc' = "routed"
  /\ UNCHANGED << ex_input, ex_signals >>

\* --------------------------------------------------------- specifications

Init == RequestsInit /\ RouteIdle /\ ExtractIdle

Next ==
  \/ \E r \in Requests : SaveUpload(r) /\ UNCHANGED << routeVars, extractVars >>
  \/ \E r \in Requests : RouteUpload(r) /\ UNCHANGED << routeVars, extractVars >>
  \/ \E r \in Requests : Respond(r) /\ UNCHANGED << routeVars, extractVars >>
  \/ \E r \in Requests : Fail(r) /\ UNCHANGED << routeVars, extractVars >>

Spec == Init /\ [][Next]_vars

PolicyInit == RouteInit /\ RequestsIdle /\ ExtractIdle

PolicyNext ==
  \/ StepBaseline /\ UNCHANGED << requestVars, extractVars >>
  \/ StepRule1 /\ UNCHANGED << requestVars, extractVars >>
  \/ StepRule2 /\ UNCHANGED << requestVars, extractVars >>
  \/ StepRule3 /\ UNCHANGED << requestVars, extractVars >>
  \/ StepRule4 /\ UNCHANGED << requestVars, extractVars >>
  \/ StepRule5 /\ UNCHANGED << requestVars, extractVars >>
  \/ StepReturn /\ UNCHANGED << requestVars, extractVars >>
  \/ StepExplain /\ UNCHANGED << requestVars, extractVars >>

SpecPolicy == PolicyInit /\ [][PolicyNext]_vars

ExtractSpecInit == ExtractInit /\ RequestsIdle /\ RouteIdle

ExtractNext ==
  \/ ExtractSignals /\ UNCHANGED << requestVars, routeVars >>
  \/ RouteSignals /\ UNCHANGED << requestVars, routeVars >>

SpecExtract == ExtractSpecInit /\ [][ExtractNext]_vars

\* ------------------------------------------------- the claims' vocabulary

\* The rule table of the specification: trigger condition, specialist and
\* reason of each rule, in table order.
RULES == <<"Compression", "Low-light", "Resolution", "Audio-visual", "Temporal">>

Triggered(rule, s) ==
  CASE rule = "Compression" ->
         \/ s.estimated_bitrate_category = "LOW"
         \/ s.file_size_category = "SMALL"
         \/ s.filename_indicators.has_compressed_keywords
         \/ s.filename_indicators.has_social_keywords
    [] rule = "Low-light" ->
         \/ s.complexity_indicator = "LOW_COMPLEXITY"
         \/ s.estimated_quality_band = "LOW"
         \/ s.filename_indicators.has_mobile_keywords
    [] rule = "Resolution" ->
         \/ (s.file_size_category = "LARGE" /\ s.filename_indicators.has_mobile_keywords)
         \/ (s.file_size_category = "SMALL" /\ s.filename_indicators.has_hd_keywords)
         \/ s.file_extension \in {EXT_WEBM, EXT_MKV}
    [] rule = "Audio-visual" ->
         s.file_size_mb > 200 /\ ~s.filename_indicators.has_compressed_keywords
    [] rule = "Temporal" ->
         s.file_size_mb > 1000 \/ s.complexity_indicator = "HIGH_COMPLEXITY"

SpecialistOf(rule) ==
  CASE rule = "Compression" -> "CM-Model N"
    [] rule = "Low-light" -> "LL-Model N"
    [] rule = "Resolution" -> "RR-Model N"
    [] rule = "Audio-visual" -> "AV-Model N"
    [] rule = "Temporal" -> "TM-Model"

ReasonOf(rule, s) ==
  CASE rule = "Compression" ->
         Reason(CM_REASON, <<s.estimated_bitrate_category, s.file_size_category>>)
    [] rule = "Low-light" ->
         Reason(LL_REASON, <<s.complexity_indicator, s.estimated_quality_band>>)
    [] rule = "Resolution" -> Reason(RR_REASON, <<>>)
    [] rule = "Audio-visual" -> Reason(AV_REASON, <<>>)
    [] rule = "Temporal" ->
         Reason(TM_REASON, <<ToString(s.file_size_mb), s.complexity_indicator>>)

TriggeredRules(s) == {rule \in Range(RULES) : Triggered(rule, s)}

\* The triggered rules' reasons, in table order.
ExpectedReasons(s) ==
  LET hit == SelectSeq(RULES, LAMBDA rule : Triggered(rule, s))
  IN [i \in 1..Len(hit) |-> ReasonOf(hit[i], s)]

SymDiff(A, B) == (A \ B) \cup (B \ A)

NoDuplicates(list) ==
  \A i, j \in 1..Len(list) : list[i] = list[j] => i = j

\* One evaluation of the policy has returned.
Returned == route_pc \in {"done", "explained"}
Chosen == Range(route_result.specialists_selected)
Flags == route_signals.filename_indicators

\* A request's routing has been computed.
Routed(r) == pc[r] \in {"routed", "done"}

\* The file descriptor of a request: size, declared name, first 1 KiB.
Descriptor(r) ==
  << upload[r].file_size, upload[r].filename, upload[r].content.head >>

\* ----------------------------------------------------------------- claims

\* C1 (as claimed): two runs on the same file descriptor, each having read the
\* file's first 1 KiB, yield identical signal bundles and identical routing
\* decisions, the emitted specialists_selected list included, also when the
\* two runs are served by different processes.
C1_RepeatedRunsIdentical ==
  \A r1, r2 \in Requests :
    ( /\ Routed(r1) /\ Routed(r2)
      /\ Descriptor(r1) = Descriptor(r2)
      /\ read_ok[r1] /\ read_ok[r2] )
    => /\ deterministic_signals[r1] = deterministic_signals[r2]
       /\ routing[r1] = routing[r2]

\* C2: whatever the signal bundle, the returned specialists_selected contains
\* the baseline 'BG-Model N'.
C2_BaselineAlwaysSelected ==
  Returned => "BG-Model N" \in Chosen

\* C2 witness: a decision in which no rule but Temporal triggered, baseline kept.
C2_Witness ==
  /\ Returned
  /\ TriggeredRules(route_signals) = {"Temporal"}
  /\ "BG-Model N" \in Chosen

\* C3: 'CM-Model N' is selected iff bitrateCategory = LOW or sizeCategory =
\* SMALL or the compressed-keyword flag or the social-keyword flag holds.
C3_CompressionRule ==
  Returned =>
    ( "CM-Model N" \in Chosen <=>
        \/ route_signals.estimated_bitrate_category = "LOW"
        \/ route_signals.file_size_category = "SMALL"
        \/ Flags.has_compressed_keywords
        \/ Flags.has_social_keywords )

\* C3 witness: CM selected on the social keyword alone.
C3_Witness ==
  /\ Returned
  /\ "CM-Model N" \in Chosen
  /\ route_signals.estimated_bitrate_category = "HIGH"
  /\ route_signals.file_size_category = "LARGE"
  /\ ~Flags.has_compressed_keywords
  /\ Flags.has_social_keywords

\* C4: 'AV-Model N' is selected iff file_size_mb > 2 and the compressed-keyword
\* flag is false; a compressed-keyword file never selects AV, whatever its size.
C4_AudioVisualRule ==
  Returned =>
    /\ "AV-Model N" \in Chosen <=>
         (route_signals.file_size_mb > 200 /\ ~Flags.has_compressed_keywords)
    /\ Flags.has_compressed_keywords => "AV-Model N" \notin Chosen

\* C4 witness: a file above 2 MiB with a compressed keyword, AV not selected.
C4_Witness ==
  /\ Returned
  /\ route_signals.file_size_mb > 200
  /\ Flags.has_compressed_keywords
  /\ "AV-Model N" \notin Chosen

\* C5: 'RR-Model N' is selected iff (sizeCategory = LARGE and mobile keyword)
\* or (sizeCategory = SMALL and hd keyword) or the extension is webm or mkv.
C5_ResolutionRule ==
  Returned =>
    ( "RR-Model N" \in Chosen <=>
        \/ (route_signals.file_size_category = "LARGE" /\ Flags.has_mobile_keywords)
        \/ (route_signals.file_size_category = "SMALL" /\ Flags.has_hd_keywords)
        \/ route_signals.file_extension = EXT_WEBM
        \/ route_signals.file_extension = EXT_MKV )

\* C5 witness: RR selected for a SMALL file with an hd keyword and an mp4 name.
C5_Witness ==
  /\ Returned
  /\ "RR-Model N" \in Chosen
  /\ route_signals.file_size_category = "SMALL"
  /\ Flags.has_hd_keywords
  /\ ~Flags.has_mobile_keywords
  /\ route_signals.file_extension = EXT_MP4

\* C6: 'LL-Model N' is selected iff complexity = LOW_COMPLEXITY or
\* qualityBand = LOW or the mobile-keyword flag holds.
C6_LowLightRule ==
  Returned =>
    ( "LL-Model N" \in Chosen <=>
        \/ route_signals.complexity_indicator = "LOW_COMPLEXITY"
        \/ route_signals.estimated_quality_band = "LOW"
        \/ Flags.has_mobile_keywords )

\* C6 witness: LL not selected for a HIGH_COMPLEXITY, MEDIUM band, non-mobile file.
C6_Witness ==
  /\ Returned
  /\ "LL-Model N" \notin Chosen
  /\ route_signals.complexity_indicator = "HIGH_COMPLEXITY"
  /\ route_signals.estimated_quality_band = "MEDIUM"
  /\ ~Flags.has_mobile_keywords

\* C7: 'TM-Model' is selected iff file_size_mb > 10 or complexity =
\* HIGH_COMPLEXITY.
C7_TemporalRule ==
  Returned =>
    ( "TM-Model" \in Chosen <=>
        \/ route_signals.file_size_mb > 1000
        \/ route_signals.complexity_indicator = "HIGH_COMPLEXITY" )

\* C7 witness: TM selected on size alone, for a LOW_COMPLEXITY file above 10 MiB.
C7_Witness ==
  /\ Returned
  /\ "TM-Model" \in Chosen
  /\ route_signals.file_size_mb > 1000
  /\ route_signals.complexity_indicator = "LOW_COMPLEXITY"

\* C8: routing_reasons holds exactly the reasons of the triggered rules, one
\* each, in the table order Compression, Low-light, Resolution, Audio-visual,
\* Temporal; so there is one reason fewer than there are selected specialists.
C8_ReasonsInTableOrder ==
  Returned =>
    /\ route_result.routing_reasons = ExpectedReasons(route_signals)
    /\ Len(route_result.routing_reasons) =
         Len(route_result.specialists_selected) - 1

\* C8 witness: a decision with all five rules triggered and five reasons.
C8_Witness ==
  /\ Returned
  /\ TriggeredRules(route_signals) = Range(RULES)
  /\ Len(route_result.routing_reasons) = 5

\* The second bundle of a comparison: bundles that between them trigger every
\* combination of rules some bundle triggers, and their decisions.
ProbeSignals ==
  {s \in AllSignals :
     /\ s.file_size_mb # TM_SIZE_ABOVE
     /\ s.file_size_category = "MEDIUM"
     /\ s.estimated_bitrate_category = "HIGH"
     /\ s.estimated_quality_band # "MEDIUM"
     /\ s.file_extension \in {EXT_MP4, EXT_MKV}
     /\ ~s.filename_indicators.has_compressed_keywords
     /\ ~s.filename_indicators.has_hd_keywords
     /\ ~s.filename_indicators.has_mobile_keywords}

ProbeTriggered == [s \in ProbeSignals |-> TriggeredRules(s)]
ProbeChosen ==
  [s \in ProbeSignals |->
     Range(apply_deterministic_routing_policy(s, 0).specialists_selected)]

\* C9: when two bundles differ in the truth value of exactly one rule's
\* trigger condition, their specialist sets differ in exactly that rule's
\* specialist.
C9_RuleIndependence ==
  Returned =>
    LET mine == TriggeredRules(route_signals)
    IN \A s \in ProbeSignals :
         LET toggled == SymDiff(mine, ProbeTriggered[s])
         IN Cardinality(toggled) = 1
              => SymDiff(Chosen, ProbeChosen[s])
                   = {SpecialistOf(rule) : rule \in toggled}

\* C9 witness: a decision with Resolution and Audio-visual triggered, against
\* which a bundle that triggers Audio-visual but not Resolution, and all else
\* alike, is compared.
C9_Witness ==
  /\ Returned
  /\ {"Resolution", "Audio-visual"} \subseteq TriggeredRules(route_signals)
  /\ \E s \in ProbeSignals :
       SymDiff(TriggeredRules(route_signals), ProbeTriggered[s]) = {"Resolution"}

\* sorted(models_used) of the consistency test: insertion by string order.
StringRank(name) ==
  CASE name = "AV-Model N" -> 1
    [] name = "BG-Model N" -> 2
    [] name = "CM-Model N" -> 3
    [] name = "LL-Model N" -> 4
    [] name = "RR-Model N" -> 5
    [] name = "TM-Model" -> 6

RECURSIVE sorted(_)
sorted(list) ==
  IF list = <<>> THEN <<>>
  ELSE LET rest == sorted(Tail(list))
           low == SelectSeq(rest, LAMBDA m : StringRank(m) <= StringRank(Head(list)))
           high == SelectSeq(rest, LAMBDA m : StringRank(m) > StringRank(Head(list)))
       IN low \o <<Head(list)>> \o high

\* C10: specialists_selected has no duplicate; two decisions with the same
\* triggered rules have the same specialists as sets, in whatever order each
\* list is emitted; two uploads of the same video, digested alike, give equal
\* sorted models_used and equal routing_reasons.
C10_SetSemantics ==
  \A r1, r2 \in Requests :
    (Routed(r1) /\ Routed(r2)) =>
      /\ NoDuplicates(routing[r1].specialists_selected)
      /\ TriggeredRules(deterministic_signals[r1]) = TriggeredRules(deterministic_signals[r2])
           => Range(routing[r1].specialists_selected)
                = Range(routing[r2].specialists_selected)
      /\ (upload[r1] = upload[r2] /\ read_ok[r1] = read_ok[r2])
           => /\ sorted(routing[r1].specialists_selected)
                   = sorted(routing[r2].specialists_selected)
              /\ routing[r1].routing_reasons = routing[r2].routing_reasons

\* C10 witness: the same video routed by two processes that emit the
\* specialists in different orders.
C10_Witness ==
  /\ Routed("r1") /\ Routed("r2")
  /\ upload["r1"] = upload["r2"]
  /\ read_ok["r1"] /\ read_ok["r2"]
  /\ routing["r1"].specialists_selected # routing["r2"].specialists_selected
  /\ Range(routing["r1"].specialists_selected)
       = Range(routing["r2"].specialists_selected)

IsPrefix(s, t) == Len(s) <= Len(t) /\ SubSeq(t, 1, Len(s)) = s

\* The statement that follows each statement of one evaluation.
FollowingStatement(at) ==
  CASE at = "baseline" -> "rule1"
    [] at = "rule1" -> "rule2"
    [] at = "rule2" -> "rule3"
    [] at = "rule3" -> "rule4"
    [] at = "rule4" -> "rule5"
    [] at = "rule5" -> "return"
    [] at = "return" -> "done"
    [] at = "done" -> "explained"

\* C11: through the steps baseline, rule 1, ..., rule 5 the accumulated
\* specialists and reasons only grow (each step keeps what was there, in
\* place), every step is followed by the next one whatever it selected, and
\* the returned list holds everything accumulated.
C11_GrowsThroughAllRules ==
  [][ /\ IsPrefix(route_acc.specialists, route_acc'.specialists)
      /\ IsPrefix(route_acc.routing_reasons, route_acc'.routing_reasons)
      /\ route_pc' = FollowingStatement(route_pc)
      /\ route_pc = "return" =>
           Range(route_acc.specialists)
             \subseteq Range(route_result'.specialists_selected) ]_vars

\* C11 witness: an evaluation in which rule 1 selected nothing and the later
\* rules 2, 4 and 5 still selected theirs, after the baseline.
C11_Witness ==
  /\ route_pc = "return"
  /\ route_acc.specialists = <<"BG-Model N", "LL-Model N", "AV-Model N", "TM-Model">>

\* C12: the explanation has the decision's specialists (same members), its
\* reasons in the same order, total_specialists equal to the number of
\* selected specialists and the tag 'DETERMINISTIC'; generating it leaves the
\* decision unchanged.
C12_ExplanationRestatesDecision ==
  [][ route_pc' = "explained" =>
        /\ Range(route_report'.specialists_selected)
             = Range(route_result.specialists_selected)
        /\ route_report'.routing_reasons = route_result.routing_reasons
        /\ route_report'.total_specialists
             = Cardinality(Range(route_result.specialists_selected))
        /\ route_report'.routing_decision = "DETERMINISTIC"
        /\ route_result' = route_result ]_vars

\* C12 witness: an explanation of a decision with four specialists and three
\* reasons.
C12_Witness ==
  /\ route_pc = "explained"
  /\ route_report.total_specialists = 4
  /\ Len(route_report.routing_reasons) = 3

\* The keys of a complete signal bundle.
SIGNAL_KEYS ==
  { "file_size_mb", "file_size_category", "estimated_bitrate_category",
    "file_hash", "complexity_indicator", "filename_indicators",
    "file_extension", "estimated_quality_band" }

Unreadable(r) == Routed(r) /\ ~read_ok[r]

\* Two routed requests got the same routing: the same set of specialists and
\* the same reasons, and the same returned value when served under the same
\* string-hash salt.
SameRouting(r, q) ==
  /\ Range(routing[r].specialists_selected) = Range(routing[q].specialists_selected)
  /\ routing[r].routing_reasons = routing[q].routing_reasons
  /\ hashSeed[r] = hashSeed[q] => routing[r] = routing[q]

\* C13: when the temp file cannot be opened or read, the request is still
\* routed on a complete signal bundle whose digest is the MD5 of the decimal
\* byte size; unreadable files of the same size have the same digest, and
\* with the same filename as well the same signals and the same routing.
C13_UnreadableFallsBackToSize ==
  \A r \in Requests :
    Unreadable(r) =>
      /\ DOMAIN deterministic_signals[r] = SIGNAL_KEYS
      /\ deterministic_signals[r].file_hash = MD5(ToString(upload[r].file_size))
      /\ routing[r].signals_used = deterministic_signals[r]
      /\ \A q \in Requests :
           (Unreadable(q) /\ upload[q].file_size = upload[r].file_size) =>
             /\ deterministic_signals[q].file_hash = deterministic_signals[r].file_hash
             /\ upload[q].filename = upload[r].filename =>
                  deterministic_signals[q] = deterministic_signals[r] /\ SameRouting(q, r)

C13_Witness ==
  /\ Unreadable("r1") /\ Unreadable("r2")
  /\ upload["r1"].file_size = upload["r2"].file_size
  /\ upload["r1"].filename = upload["r2"].filename
  /\ upload["r1"].content.head # upload["r2"].content.head
  /\ hashSeed["r1"] # hashSeed["r2"]

Digested(r) == Routed(r) /\ read_ok[r]

\* C14: two uploads of the same byte size, the same declared filename and the
\* same first 1024 bytes, both read, get the same signal bundle, the same
\* specialists and the same reasons, whatever follows the first 1024 bytes.
C14_OnlyFirstKiBOfContent ==
  \A r, q \in Requests :
    ( /\ Digested(r) /\ Digested(q)
      /\ upload[r].file_size = upload[q].file_size
      /\ upload[r].filename = upload[q].filename
      /\ upload[r].content.head = upload[q].content.head )
    => /\ deterministic_signals[r] = deterministic_signals[q]
       /\ deterministic_signals[r].file_hash = MD5(upload[r].content.head)
       /\ SameRouting(r, q)

C14_Witness ==
  /\ Digested("r1") /\ Digested("r2")
  /\ upload["r1"].file_size = upload["r2"].file_size
  /\ upload["r1"].filename = upload["r2"].filename
  /\ upload["r1"].content.head = upload["r2"].content.head
  /\ upload["r1"].content.rest # upload["r2"].content.rest
  /\ upload["r1"].file_size > READ_LIMIT

\* The signals derived from the size and from the digest.
CONTENT_KEYS ==
  { "file_size_mb", "file_size_category", "estimated_bitrate_category",
    "file_hash", "complexity_indicator", "estimated_quality_band" }

SameSizeAndContent(r, q) ==
  /\ Routed(r) /\ Routed(q)
  /\ read_ok[r] = read_ok[q]
  /\ upload[r].file_size = upload[q].file_size
  /\ upload[r].content = upload[q].content

\* C15: for two uploads of identical size and content, the size- and
\* digest-derived signals are identical whatever the declared filenames, and
\* when the filenames give the same extension and the same four keyword
\* flags the routing is the same: the specialist sets differ only if the
\* extension or a flag differs.
C15_FilenameOnlyThroughFlagsAndExtension ==
  \A r, q \in Requests :
    SameSizeAndContent(r, q) =>
      /\ \A k \in CONTENT_KEYS : deterministic_signals[r][k] = deterministic_signals[q][k]
      /\ Range(routing[r].specialists_selected) # Range(routing[q].specialists_selected)
           => \/ deterministic_signals[r].file_extension # deterministic_signals[q].file_extension
              \/ deterministic_signals[r].filename_indicators # deterministic_signals[q].filename_indicators
      /\ ( /\ deterministic_signals[r].file_extension = deterministic_signals[q].file_extension
           /\ deterministic_signals[r].filename_indicators = deterministic_signals[q].filename_indicators )
         => SameRouting(r, q)

C15_Witness ==
  /\ SameSizeAndContent("r1", "r2")
  /\ read_ok["r1"]
  /\ upload["r1"].filename # upload["r2"].filename
  /\ deterministic_signals["r1"].file_extension = deterministic_signals["r2"].file_extension
  /\ deterministic_signals["r1"].filename_indicators = deterministic_signals["r2"].filename_indicators
  /\ "RR-Model N" \in Range(routing["r1"].specialists_selected)

InFlight(r) == pc[r] \in {"saved", "routed"}

\* What a request is answered from: the upload, whether its digest read
\* succeeded, the signals, the set of specialists and the reasons.
Decision(u, was_read, sigs, routing_result) ==
  [ upload |-> u, was_read |-> was_read, signals |-> sigs,
    specialists |-> Range(routing_result.specialists_selected),
    routing_reasons |-> routing_result.routing_reasons ]

\* The decisions for each upload handled alone.
AloneDecisions ==
  { LET sigs == extract_deterministic_signals(u.content, was_read, u.filename,
                                               u.file_size)
    IN Decision(u, was_read, sigs, apply_deterministic_routing_policy(sigs, 0)) :
      u \in Uploads, was_read \in BOOLEAN }

\* C18: under every interleaving of the requests, a routed request has the
\* signals, the specialist set and the reasons its own upload gets when
\* handled alone, also next to a request that declares the same filename;
\* while a request is between saving and responding, its temp file exists,
\* holds its own upload, and is no other request's temp file.
C18_RequestsIndependent ==
  \A r \in Requests :
    /\ Routed(r) =>
         Decision(upload[r], read_ok[r], deterministic_signals[r], routing[r])
           \in AloneDecisions
    /\ InFlight(r) =>
         /\ TempPath(r) \in DOMAIN tmpfs
         /\ tmpfs[TempPath(r)] = upload[r].content
         /\ \A q \in Requests \ {r} : TempPath(q) # TempPath(r)

C18_Witness ==
  /\ pc["r1"] = "routed" /\ read_ok["r1"]
  /\ pc["r2"] = "saved"
  /\ upload["r1"].filename = upload["r2"].filename
  /\ upload["r1"].content.head # upload["r2"].content.head
  /\ upload["r1"].file_size # upload["r2"].file_size

Extracted == ex_pc \in {"extracted", "routed"}

\* The keyword list of each flag.
KEYWORD_LISTS ==
  [ has_compressed_keywords |-> COMPRESSED_KEYWORDS,
    has_hd_keywords |-> HD_KEYWORDS,
    has_mobile_keywords |-> MOBILE_KEYWORDS,
    has_social_keywords |-> SOCIAL_KEYWORDS ]

\* a and b are the same character up to letter case.
SameLetter(a, b) ==
  \/ a = b
  \/ \E n \in 1..Len(UpperCase) : {a, b} = {UpperCase[n], LowerCase[n]}

\* term occurs in name at some position, contiguously, in any letter case.
OccursIgnoringCase(term, name) ==
  \E at \in 0..(Len(name) - Len(term)) :
    \A j \in 1..Len(term) : SameLetter(name[at + j], term[j])

\* C16: each of the four filename flags is true exactly when some term of
\* its keyword list occurs in the filename as a contiguous substring, at any
\* position and in any letter case; whole tokens are not required, so
\* 'nonhd.mp4' and 'NonHD.mp4' have the hd flag.
C16_FlagsAreSubstringSearch ==
  Extracted =>
    /\ DOMAIN ex_signals.filename_indicators = DOMAIN KEYWORD_LISTS
    /\ \A flag \in DOMAIN KEYWORD_LISTS :
         ex_signals.filename_indicators[flag]
           <=> \E term \in KEYWORD_LISTS[flag] :
                 OccursIgnoringCase(term, ex_input.filename)
    /\ ex_input.filename \in { <<"n","o","n","h","d",".","m","p","4">>,
                               <<"N","o","n","H","D",".","m","p","4">> }
         => ex_signals.filename_indicators.has_hd_keywords

C16_Witness ==
  /\ Extracted
  /\ ex_input.filename = <<"N","o","n","H","D",".","m","p","4">>
  /\ ex_signals.filename_indicators.has_hd_keywords
  /\ ~ex_signals.filename_indicators.has_compressed_keywords

\* The positions of '.' in a filename, and the text after position `at`
\* is `term` up to letter case.
Dots(name) == {i \in 1..Len(name) : name[i] = "."}
EndsIgnoringCase(name, at, term) ==
  /\ Len(name) - at = Len(term)
  /\ \A j \in 1..Len(term) : SameLetter(name[at + j], term[j])

\* C17: the extension signal of a filename without '.' is 'unknown'; with a
\* '.', it is the text after the last '.', letter by letter, with every
\* upper-case letter replaced by its lower-case letter; and a filename whose
\* text after the last '.' is 'mkv' in any letter case gets the Resolution
\* specialist.
C17_ExtensionSignal ==
  Extracted =>
    LET name == ex_input.filename
        ext == ex_signals.file_extension
    IN /\ Dots(name) = {} => ext = EXT_UNKNOWN
       /\ Dots(name) # {} =>
            LET last == CHOOSE i \in Dots(name) : \A j \in Dots(name) : j <= i
            IN /\ EndsIgnoringCase(name, last, ext)
               /\ \A j \in 1..Len(ext) : ext[j] \notin Range(UpperCase)
               /\ (ex_pc = "routed" /\ EndsIgnoringCase(name, last, EXT_MKV))
                    => "RR-Model N" \in Range(ex_routing.specialists_selected)

C17_Witness ==
  /\ ex_pc = "routed"
  /\ ex_input.filename = <<"c","l","i","p",".","M","k","v">>
  /\ ex_signals.file_extension = EXT_MKV
  /\ ~ex_signals.filename_indicators.has_hd_keywords
  /\ "RR-Model N" \in Range(ex_routing.specialists_selected)

\* C19: the first character of the digest is one of the sixteen lower-case
\* hex digits, and the complexity is LOW_COMPLEXITY exactly for the digits
\* 0-7, that is exactly when the digit's numeric value is below 8, and
\* HIGH_COMPLEXITY for 8, 9 and a-f.
C19_CharacterPartitionIsNumeric ==
  Extracted =>
    LET first == ex_signals.file_hash[1]
    IN /\ first \in Range(HexDigits)
       /\ ex_signals.complexity_indicator =
            IF first \in {"0", "1", "2", "3", "4", "5", "6", "7"}
              THEN "LOW_COMPLEXITY" ELSE "HIGH_COMPLEXITY"
       /\ ex_signals.complexity_indicator = "LOW_COMPLEXITY" <=> HexVal(first) < 8

C19_Witness ==
  /\ Extracted
  /\ ex_signals.file_hash[1] = "a"
  /\ ex_signals.complexity_indicator = "HIGH_COMPLEXITY"
  /\ {MD5(head)[1] : head \in EX_HEADS} = Range(HexDigits)

\* C20: the routing of every extracted bundle selects the baseline, at least
\* one of CM-Model N and AV-Model N, and at least one of LL-Model N and
\* TM-Model: at least three specialists, at least two reasons, never the
\* baseline alone.
C20_AtLeastThreeSpecialists ==
  ex_pc = "routed" =>
    LET chosen == Range(ex_routing.specialists_selected)
    IN /\ ex_routing.signals_used = ex_signals
       /\ "BG-Model N" \in chosen
       /\ chosen \cap {"CM-Model N", "AV-Model N"} # {}
       /\ chosen \cap {"LL-Model N", "TM-Model"} # {}
       /\ Cardinality(chosen) >= 3
       /\ Len(ex_routing.specialists_selected) >= 3
       /\ Len(ex_routing.routing_reasons) >= 2
       /\ chosen # {"BG-Model N"}

\* C20 witness: a routing with exactly three specialists and two reasons.
C20_Witness ==
  /\ ex_pc = "routed"
  /\ Range(ex_routing.specialists_selected) = {"BG-Model N", "AV-Model N", "LL-Model N"}
  /\ Len(ex_routing.routing_reasons) = 2
  /\ ex_input.file_size = 5237638

\* C21: the two size-derived categories agree: a LOW bitrate category (fewer
\* than 5,000,000 bytes) comes with the SMALL size category (rounded size
\* below 5 MB), and the LARGE size category (rounded size at least 20 MB)
\* comes with the HIGH bitrate category (at least 20,000,000 bytes).
C21_SizeCategoriesConsistent ==
  Extracted =>
    LET size_category == ex_signals.file_size_category
        bitrate_category == ex_signals.estimated_bitrate_category
    IN /\ bitrate_category = "LOW" <=> ex_input.file_size < 5000000
       /\ bitrate_category = "HIGH" <=> ex_input.file_size >= 20000000
       /\ size_category = "SMALL" <=> ex_signals.file_size_mb < 500
       /\ size_category = "LARGE" <=> ex_signals.file_size_mb >= 2000
       /\ bitrate_category = "LOW" => size_category = "SMALL"
       /\ size_category = "LARGE" => bitrate_category = "HIGH"

\* C21 witness: the largest size of LOW bitrate category, which is SMALL.
C21_Witness ==
  /\ Extracted
  /\ ex_input.file_size = 4999999
  /\ ex_signals.estimated_bitrate_category = "LOW"
  /\ ex_signals.file_size_category = "SMALL"

Finished(r) == pc[r] \in {"done", "failed"}

\* C22: once the handling of a request has finished, with a result or with
\* a failure at any step, its temp file does not exist; a failure is
\* answered with status 500, a result with 200; and the temp directory
\* holds no file but those of the requests still being handled.
C22_NoTempFileLeftBehind ==
  /\ \A r \in Requests :
       Finished(r) =>
         /\ TempPath(r) \notin DOMAIN tmpfs
         /\ response[r].status_code = IF pc[r] = "failed" THEN 500 ELSE 200
  /\ \A r \in Requests : ~Finished(r) => response[r] = NoResponse
  /\ DOMAIN tmpfs \subseteq {TempPath(r) : r \in {q \in Requests : InFlight(q)}}

\* C22 witness: one request failed and one returned a result, both after a
\* request of the same filename had its file saved, and no file is left.
C22_Witness ==
  /\ pc["r1"] = "failed" /\ response["r1"].status_code = 500
  /\ pc["r2"] = "done" /\ response["r2"].status_code = 200
  /\ upload["r1"].filename = upload["r2"].filename
  /\ tmpfs = NoFiles

====
